---- MODULE Spec2Model ----
(***************************************************************************)
(* A model of lastfmeoystats/main.py: the end-of-year last.fm statistics   *)
(* script.  The module's functions are modelled as operators and actions   *)
(* named after them; the __main__ block is a table of statements (Main)    *)
(* executed top to bottom by the driver actions.                           *)
(*                                                                         *)
(* Two specifications:                                                     *)
(*   Spec         one run of the script (python main.py)                   *)
(*   LibrarySpec  write_data_to_file and create_bar_chart called as        *)
(*                library functions on bounded inputs                      *)
(*                                                                         *)
(* A text file is modelled by the string of the characters it holds.       *)
(***************************************************************************)
EXTENDS Integers, Sequences, FiniteSets, TLC

\* Longest ranked list the model draws (service responses and library inputs).
MaxLen == 2
\* Most library calls in a row in LibrarySpec.
MaxCalls == 2

VARIABLES
    pc,            \* index in Main of the statement being executed
    exit,          \* "running", "ok" (exit code 0), "error" (uncaught), "library"
    secrets_json,  \* the resource at 'secrets.json'
    globals,       \* module-level names bound so far: name -> value
    stdout,        \* the strings printed
    clients,       \* the pylast.LastFMNetwork objects constructed
    requests,      \* the calls made on the user object, with their results
    files,         \* text files of the working directory: path -> content
    images,        \* image files: path -> what was drawn
    raised,        \* the exception the last call raised, "" when it returned
    trace,         \* the __main__ statements started, in order
    args,          \* LibrarySpec: the arguments the caller passes
    calls,         \* LibrarySpec: the calls made so far, with what io allowed
    old            \* LibrarySpec: files, images and raised before each call

vars == <<pc, exit, secrets_json, globals, stdout, clients, requests, files,
          images, raised, trace, args, calls, old>>

----------------------------------------------------------------------------
(* Generic helpers                                                         *)

\* A dict / directory with key k bound to v.
Bind(f, k, v) == [x \in DOMAIN f \cup {k} |-> IF x = k THEN v ELSE f[x]]

Min(a, b) == IF a < b THEN a ELSE b

\* The empty dict / empty directory.
Empty == <<>>

----------------------------------------------------------------------------
(* The script's pure parts                                                 *)

\* f'{x}' of a str is the string, of an int its decimal digits.
FormatStr(s) == s
FormatInt(n) == ToString(n)

\* Attribute access thing.item / thing.weight succeeds.
HasAttrs(thing) == {"item", "weight"} \subseteq DOMAIN thing

\* f'{number + 1}. {lastfm_thing.item} ({lastfm_thing.weight})\n'
FormatLineRankFromZero(number, lastfm_thing) ==
    FormatInt(number) \o ". " \o FormatStr(lastfm_thing.item)
        \o " (" \o FormatInt(lastfm_thing.weight) \o ")\n"

FormatLine(number, lastfm_thing) ==
    FormatInt(number + 1) \o ". " \o FormatStr(lastfm_thing.item)
        \o " (" \o FormatInt(lastfm_thing.weight) \o ")\n"

\* The list comprehension over enumerate(data): number counts from 0.
Output(data) == [k \in 1..Len(data) |-> FormatLine(k - 1, data[k])]

\* The strings of a list one after the other, as writelines puts them out.
RECURSIVE Joined(_)
Joined(strings) ==
    IF Len(strings) = 0 THEN "" ELSE Head(strings) \o Joined(Tail(strings))

\* int(x) of an int.
PyInt(x) == x

\* names = [f'{last_fm_thing.item}' for last_fm_thing in last_fm_data]
BarNamesReversed(last_fm_data) ==
    [k \in 1..Len(last_fm_data) |->
        FormatStr(last_fm_data[Len(last_fm_data) + 1 - k].item)]

BarNames(last_fm_data) ==
    [k \in 1..Len(last_fm_data) |-> FormatStr(last_fm_data[k].item)]

\* listens = [int(last_fm_thing.weight) for last_fm_thing in last_fm_data]
BarListens(last_fm_data) ==
    [k \in 1..Len(last_fm_data) |-> PyInt(last_fm_data[k].weight)]

\* f"{graph_path}/{graph_filename}"
GraphFile(graph_path, graph_filename) ==
    FormatStr(graph_path) \o "/" \o FormatStr(graph_filename)

----------------------------------------------------------------------------
(* The file system as the script uses it                                   *)

\* open(file_name, 'a'): the file is created if missing, its content kept.
OpenAppend(fs, file_name) ==
    IF file_name \in DOMAIN fs THEN fs ELSE Bind(fs, file_name, "")

\* open(file_name, 'w'): the file is created, or truncated to nothing.
OpenWrite(fs, file_name) == Bind(fs, file_name, "")

\* n characters of text reach the file, after what it holds.
Written(fs, file_name, text, n) ==
    Bind(fs, file_name, fs[file_name] \o SubSeq(text, 1, n))

\* file.writelines(output), and the close that ends the with block: all the
\* strings reach the file.
Writelines(fs, file_name, output) ==
    Written(fs, file_name, Joined(output), Len(Joined(output)))

----------------------------------------------------------------------------
(* write_data_to_file(data, file_name).  io is what the file system lets   *)
(* the call do: "ok", "open_fails" (open raises, nothing is touched) or    *)
(* "write_fails" (the file was opened, the buffered writer got only some   *)
(* of the characters out, the error propagates).  A write of nothing       *)
(* cannot fail.                                                            *)

IoWrite == {"ok", "open_fails", "write_fails"}

\* A variant that opens the file before it builds the lines.
write_data_to_file_open_first(data, file_name, io) ==
    IF io = "open_fails"
    THEN /\ raised' = "OSError"
         /\ files' = files
    ELSE IF \E k \in 1..Len(data) : ~HasAttrs(data[k])
    THEN /\ raised' = "AttributeError"
         /\ files' = OpenWrite(files, file_name)
    ELSE IF io = "write_fails"
    THEN /\ raised' = "OSError"
         /\ \E n \in 0..(Len(Joined(Output(data))) - 1) :
               files' = Written(OpenWrite(files, file_name), file_name,
                                Joined(Output(data)), n)
    ELSE /\ raised' = ""
         /\ files' = Writelines(OpenWrite(files, file_name), file_name,
                                Output(data))

\* A variant that leaves the file alone when there is nothing to write.
write_data_to_file_unless_empty(data, file_name, io) ==
    IF \E k \in 1..Len(data) : ~HasAttrs(data[k])
    THEN /\ raised' = "AttributeError"
         /\ files' = files
    ELSE IF Len(data) = 0
    THEN /\ io = "ok"
         /\ raised' = ""
         /\ files' = files
    ELSE IF io = "open_fails"
    THEN /\ raised' = "OSError"
         /\ files' = files
    ELSE IF io = "write_fails"
    THEN /\ raised' = "OSError"
         /\ \E n \in 0..(Len(Joined(Output(data))) - 1) :
               files' = Written(OpenWrite(files, file_name), file_name,
                                Joined(Output(data)), n)
    ELSE /\ raised' = ""
         /\ files' = Writelines(OpenWrite(files, file_name), file_name,
                                Output(data))

write_data_to_file(data, file_name, io) ==
    IF \E k \in 1..Len(data) : ~HasAttrs(data[k])
    THEN \* the comprehension raises before open() is reached
         /\ raised' = "AttributeError"
         /\ files' = files
    ELSE IF io = "open_fails"
    THEN /\ raised' = "OSError"
         /\ files' = files
    ELSE IF io = "write_fails"
    THEN \* the file was truncated; a proper prefix of the characters is kept
         /\ raised' = "OSError"
         /\ \E n \in 0..(Len(Joined(Output(data))) - 1) :
               files' = Written(OpenWrite(files, file_name), file_name,
                                Joined(Output(data)), n)
    ELSE /\ raised' = ""
         /\ files' = Writelines(OpenWrite(files, file_name), file_name,
                                Output(data))

----------------------------------------------------------------------------
(* create_bar_chart(last_fm_data, x_label, y_label, title, graph_path,     *)
(* graph_filename).  An image file is modelled by what ax.bar and ax.set   *)
(* were given; io is "ok" or "savefig_fails" (the image is missing or      *)
(* incomplete, the error propagates).                                      *)

IoChart == {"ok", "savefig_fails"}

\* What the figure holds when savefig is reached.
Figure(last_fm_data, x_label, y_label, title, complete) ==
    [names    |-> BarNames(last_fm_data),
     listens  |-> BarListens(last_fm_data),
     xlabel   |-> x_label,
     ylabel   |-> y_label,
     title    |-> title,
     complete |-> complete]

create_bar_chart(last_fm_data, x_label, y_label, title, graph_path, graph_filename, io) ==
    IF \E k \in 1..Len(last_fm_data) : ~HasAttrs(last_fm_data[k])
    THEN /\ raised' = "AttributeError"
         /\ images' = images
    ELSE IF io = "savefig_fails"
    THEN /\ raised' = "OSError"
         /\ \/ images' = images
            \/ images' = Bind(images, GraphFile(graph_path, graph_filename),
                              Figure(last_fm_data, x_label, y_label, title,
                                     FALSE))
    ELSE /\ raised' = ""
         /\ images' = Bind(images, GraphFile(graph_path, graph_filename),
                           Figure(last_fm_data, x_label, y_label, title, TRUE))

----------------------------------------------------------------------------
(* The environment of a run: secrets.json, the last.fm service, the clock  *)

\* What 'secrets.json' may be: absent, not JSON, a dict lacking 'user', or
\* a dict with the three keys.
SecretsResources ==
    { [exists |-> FALSE],
      [exists |-> TRUE, json |-> FALSE],
      [exists |-> TRUE, json |-> TRUE,
       value |-> [key |-> "k", secret |-> "s"]],
      [exists |-> TRUE, json |-> TRUE,
       value |-> [key |-> "k", secret |-> "s", user |-> "u"]] }

\* The service's ranking for each top-list method: display names by rank.
ChartNames(method) ==
    CASE method = "get_top_artists" -> <<"A", "B", "C", "D">>
      [] method = "get_top_albums"  -> <<"A - L1", "B - L2", "C - L3", "D - L4">>
      [] method = "get_top_tracks"  -> <<"A - T1", "B - T2", "C - T3", "D - T4">>

\* Play counts by rank, descending, different for each method and period.
ChartWeights(method, period) ==
    CASE method = "get_top_artists" /\ period = "12month" -> <<100, 50, 25, 12>>
      [] method = "get_top_artists" /\ period = "overall" -> <<900, 800, 700, 600>>
      [] method = "get_top_albums"  /\ period = "12month" -> <<40, 30, 20, 10>>
      [] method = "get_top_albums"  /\ period = "overall" -> <<94, 93, 92, 91>>
      [] method = "get_top_tracks"  /\ period = "12month" -> <<9, 7, 5, 3>>
      [] method = "get_top_tracks"  /\ period = "overall" -> <<19, 17, 15, 13>>

\* TopItem(item, weight) of rank r.
TopItem(method, period, r) ==
    [item |-> ChartNames(method)[r], weight |-> ChartWeights(method, period)[r]]

\* The lists the service may answer a top-list call with: the first n ranks,
\* for any n the limit and the model's bound allow (the user may have
\* listened to fewer things than the limit asks for).
Responses(method, period, limit) ==
    { [r \in 1..n |-> TopItem(method, period, r)] :
        n \in 0..Min(Min(limit, MaxLen), Len(ChartNames(method))) }

\* datetime.now().year: the year of the run.  It reaches the titles of the
\* annual charts and nothing else.
Years == {2019}

----------------------------------------------------------------------------
(* get_annual_data / get_all_time_data: the calls each makes, in the order *)
(* Python evaluates the elements of the returned tuple.                    *)

get_annual_data_calls ==
    << [method |-> "get_top_artists", period |-> "12month", limit |-> 20],
       [method |-> "get_top_albums",  period |-> "12month", limit |-> 20],
       [method |-> "get_top_tracks",  period |-> "12month", limit |-> 20] >>

\* A variant with the limits of get_annual_data left in place.
get_all_time_data_calls_limit_20 ==
    << [method |-> "get_top_artists", period |-> "overall", limit |-> 20],
       [method |-> "get_top_albums",  period |-> "overall", limit |-> 20],
       [method |-> "get_top_tracks",  period |-> "overall", limit |-> 20] >>

get_all_time_data_calls ==
    << [method |-> "get_top_artists", period |-> "overall", limit |-> 100],
       [method |-> "get_top_albums",  period |-> "overall", limit |-> 15],
       [method |-> "get_top_tracks",  period |-> "overall", limit |-> 15] >>

\* The log entry of one call on the user object.
Request(call, ok, result) ==
    [method |-> call.method, period |-> call.period, limit |-> call.limit,
     ok |-> ok, result |-> result]

\* A fetch function whose calls are `queries`: the first n calls succeed; with
\* n = 3 the tuple of the three results is bound to the statement's targets,
\* otherwise call n + 1 raises and nothing is bound.
FetchTuple(queries, targets) ==
    \E n \in 0..3 :
    \E r1 \in Responses(queries[1].method, queries[1].period, queries[1].limit) :
    \E r2 \in Responses(queries[2].method, queries[2].period, queries[2].limit) :
    \E r3 \in Responses(queries[3].method, queries[3].period, queries[3].limit) :
        LET ret  == <<r1, r2, r3>>
            done == [i \in 1..n |-> Request(queries[i], TRUE, ret[i])]
        IN  IF n = 3
            THEN /\ requests' = requests \o done
                 /\ raised' = ""
                 /\ globals' = Bind(Bind(Bind(globals, targets[1], ret[1]),
                                         targets[2], ret[2]),
                                    targets[3], ret[3])
            ELSE /\ requests' = requests \o done
                                 \o <<Request(queries[n + 1], FALSE, <<>>)>>
                 /\ raised' = "NetworkError"
                 /\ globals' = globals

----------------------------------------------------------------------------
(* The __main__ block: one entry per statement, in source order            *)

\* Lines 90-94: credentials, user, the two fetches, the clock.
Prologue ==
  << [line |-> 90, call |-> "get_secrets", target |-> "my_secrets"],
     [line |-> 91, call |-> "interpret_secrets", arg |-> "my_secrets",
      target |-> "my_user"],
     [line |-> 92, call |-> "get_annual_data", arg |-> "my_user",
      targets |-> <<"top_annual_artists", "top_annual_albums",
                    "top_annual_tracks">>],
     [line |-> 93, call |-> "get_all_time_data", arg |-> "my_user",
      targets |-> <<"top_overall_artists", "top_overall_albums",
                    "top_overall_tracks">>],
     [line |-> 94, call |-> "now", target |-> "current_year"] >>

\* The two statements in the other order.
ReportChartFirst(wline, cline, data, file_name, x_label, title, year, graph_filename) ==
  << [line |-> cline, call |-> "create_bar_chart", data |-> data,
      x_label |-> x_label, y_label |-> "Listens", title |-> title,
      year |-> year, graph_path |-> ".", graph_filename |-> graph_filename],
     [line |-> wline, call |-> "write_data_to_file", data |-> data,
      file_name |-> file_name] >>

\* One list's two statements: write_data_to_file(data, file_name), then
\* create_bar_chart(data, x_label, 'Listens', title, '.', graph_filename);
\* with year, the title is an f-string ending in {current_year}.
Report(wline, cline, data, file_name, x_label, title, year, graph_filename) ==
  << [line |-> wline, call |-> "write_data_to_file", data |-> data,
      file_name |-> file_name],
     [line |-> cline, call |-> "create_bar_chart", data |-> data,
      x_label |-> x_label, y_label |-> "Listens", title |-> title,
      year |-> year, graph_path |-> ".", graph_filename |-> graph_filename] >>

\* Lines 95-110 with the overall albums file written from the annual albums.
ReportsCrossed ==
       Report(95, 96, "top_annual_artists", "top_annual_artists",
              "Artists", "Top Artists of ", TRUE, "top_annual_artist.jpg")
    \o Report(98, 99, "top_overall_artists", "top_overall_artists",
              "Artists", "Top Artists Overall", FALSE, "top_overall_artist.jpg")
    \o Report(101, 102, "top_annual_albums", "top_annual_albums",
              "Albums", "Top Albums of ", TRUE, "top_annual_albums.jpg")
    \o Report(104, 105, "top_annual_albums", "top_overall_albums",
              "Albums", "Top Albums Overall", FALSE, "top_overall_albums.jpg")
    \o Report(106, 107, "top_annual_tracks", "top_annual_tracks",
              "Tracks", "Top Tracks of ", TRUE, "top_annual_tracks.jpg")
    \o Report(109, 110, "top_overall_tracks", "top_overall_tracks",
              "Tracks", "Top Tracks Overall", FALSE, "top_overall_tracks.jpg")

\* Lines 95-110.
Reports ==
       Report(95, 96, "top_annual_artists", "top_annual_artists",
              "Artists", "Top Artists of ", TRUE, "top_annual_artist.jpg")
    \o Report(98, 99, "top_overall_artists", "top_overall_artists",
              "Artists", "Top Artists Overall", FALSE, "top_overall_artist.jpg")
    \o Report(101, 102, "top_annual_albums", "top_annual_albums",
              "Albums", "Top Albums of ", TRUE, "top_annual_albums.jpg")
    \o Report(104, 105, "top_overall_albums", "top_overall_albums",
              "Albums", "Top Albums Overall", FALSE, "top_overall_albums.jpg")
    \o Report(106, 107, "top_annual_tracks", "top_annual_tracks",
              "Tracks", "Top Tracks of ", TRUE, "top_annual_tracks.jpg")
    \o Report(109, 110, "top_overall_tracks", "top_overall_tracks",
              "Tracks", "Top Tracks Overall", FALSE, "top_overall_tracks.jpg")

Main == Prologue \o Reports

----------------------------------------------------------------------------
(* get_secrets and interpret_secrets, with the assignment of their result  *)

\* A variant that reports the missing file and returns None.
get_secrets_swallowing(target) ==
    IF ~secrets_json.exists
    THEN /\ stdout' = Append(stdout, "Could not find secrets.json!")
         /\ raised' = ""
         /\ globals' = Bind(globals, target, Empty)
    ELSE IF ~secrets_json.json
    THEN /\ stdout' = stdout
         /\ raised' = "JSONDecodeError"
         /\ globals' = globals
    ELSE /\ stdout' = stdout
         /\ raised' = ""
         /\ globals' = Bind(globals, target, secrets_json.value)

\* target = get_secrets()
get_secrets(target) ==
    IF ~secrets_json.exists
    THEN \* except FileNotFoundError: print(...); raise
         /\ stdout' = Append(stdout, "Could not find secrets.json!")
         /\ raised' = "FileNotFoundError"
         /\ globals' = globals
    ELSE IF ~secrets_json.json
    THEN \* json.load raises; only FileNotFoundError is caught
         /\ stdout' = stdout
         /\ raised' = "JSONDecodeError"
         /\ globals' = globals
    ELSE /\ stdout' = stdout
         /\ raised' = ""
         /\ globals' = Bind(globals, target, secrets_json.value)

\* target = interpret_secrets(secrets): the three lookups, then
\* pylast.LastFMNetwork(...) and network.get_user(user).  Either call may
\* raise: the constructor before any client exists, get_user after.
interpret_secrets(secrets, target) ==
    IF ~({"key", "secret", "user"} \subseteq DOMAIN secrets)
    THEN /\ raised' = "KeyError"
         /\ clients' = clients
         /\ globals' = globals
    ELSE \/ /\ raised' = "NetworkError"
            /\ clients' = clients
            /\ globals' = globals
         \/ /\ clients' = Append(clients, [api_key |-> secrets.key,
                                           api_secret |-> secrets.secret])
            /\ \/ /\ raised' = "NetworkError"
                  /\ globals' = globals
               \/ /\ raised' = ""
                  /\ globals' = Bind(globals, target, [name |-> secrets.user])

----------------------------------------------------------------------------
(* The driver: python main.py                                              *)

\* What a previous run left in the working directory: a longer list than
\* this run can write.
StaleFiles ==
    Bind(Empty, "top_annual_artists",
         Joined([k \in 1..(MaxLen + 1) |->
                    FormatLine(k - 1, [item |-> "Z", weight |-> 7])]))

Init ==
    /\ pc = 1
    /\ exit = "running"
    /\ secrets_json \in SecretsResources
    /\ globals = Empty
    /\ stdout = <<>>
    /\ clients = <<>>
    /\ requests = <<>>
    /\ files = StaleFiles
    /\ images = Empty
    /\ raised = ""
    /\ trace = <<>>
    /\ args = Empty
    /\ calls = <<>>
    /\ old = <<>>

\* A variant in which an error is logged and the next statement runs.
AdvanceDespiteError ==
    /\ pc' = pc + 1
    /\ exit' = IF pc = Len(Main) THEN "ok" ELSE "running"

\* After a statement: an exception nothing catches ends the run where it was
\* raised; otherwise the next statement runs, and the run ends after the last.
Advance ==
    IF raised' # ""
    THEN /\ pc' = pc
         /\ exit' = "error"
    ELSE /\ pc' = pc + 1
         /\ exit' = IF pc = Len(Main) THEN "ok" ELSE "running"

\* What trace keeps of a statement: its line, the function it calls and the
\* file the call names.
Event(stmt) ==
    [line |-> stmt.line, call |-> stmt.call,
     on   |-> IF "file_name" \in DOMAIN stmt THEN stmt.file_name
              ELSE IF "graph_filename" \in DOMAIN stmt THEN stmt.graph_filename
              ELSE ""]

\* The statement at pc is a call of `call`, and it starts.
Starts(call) ==
    /\ exit = "running"
    /\ pc \in 1..Len(Main)
    /\ Main[pc].call = call
    /\ trace' = Append(trace, Event(Main[pc]))

RunGetSecrets ==
    /\ Starts("get_secrets")
    /\ get_secrets(Main[pc].target)
    /\ Advance
    /\ UNCHANGED <<secrets_json, clients, requests, files, images, args,
                   calls, old>>

RunInterpretSecrets ==
    /\ Starts("interpret_secrets")
    /\ interpret_secrets(globals[Main[pc].arg], Main[pc].target)
    /\ Advance
    /\ UNCHANGED <<secrets_json, stdout, requests, files, images, args,
                   calls, old>>

RunGetAnnualData ==
    /\ Starts("get_annual_data")
    /\ Main[pc].arg \in DOMAIN globals
    /\ FetchTuple(get_annual_data_calls, Main[pc].targets)
    /\ Advance
    /\ UNCHANGED <<secrets_json, stdout, clients, files, images, args,
                   calls, old>>

RunGetAllTimeData ==
    /\ Starts("get_all_time_data")
    /\ Main[pc].arg \in DOMAIN globals
    /\ FetchTuple(get_all_time_data_calls, Main[pc].targets)
    /\ Advance
    /\ UNCHANGED <<secrets_json, stdout, clients, files, images, args,
                   calls, old>>

\* current_year = datetime.now().year
RunNow ==
    /\ Starts("now")
    /\ \E y \in Years : globals' = Bind(globals, Main[pc].target, y)
    /\ raised' = ""
    /\ Advance
    /\ UNCHANGED <<secrets_json, stdout, clients, requests, files, images,
                   args, calls, old>>

RunWriteDataToFile ==
    /\ Starts("write_data_to_file")
    /\ \E io \in IoWrite :
          write_data_to_file(globals[Main[pc].data], Main[pc].file_name, io)
    /\ Advance
    /\ UNCHANGED <<secrets_json, globals, stdout, clients, requests, images,
                   args, calls, old>>

RunCreateBarChart ==
    /\ Starts("create_bar_chart")
    /\ \E io \in IoChart :
          create_bar_chart(globals[Main[pc].data], Main[pc].x_label,
                           Main[pc].y_label,
                           IF Main[pc].year
                           THEN Main[pc].title \o FormatInt(globals["current_year"])
                           ELSE Main[pc].title,
                           Main[pc].graph_path, Main[pc].graph_filename, io)
    /\ Advance
    /\ UNCHANGED <<secrets_json, globals, stdout, clients, requests, files,
                   args, calls, old>>

Next ==
    \/ RunGetSecrets
    \/ RunInterpretSecrets
    \/ RunGetAnnualData
    \/ RunGetAllTimeData
    \/ RunNow
    \/ RunWriteDataToFile
    \/ RunCreateBarChart

Spec == Init /\ [][Next]_vars

----------------------------------------------------------------------------
(* The functions called as a library, on bounded inputs                    *)

\* All sequences over S of length at most n.
SeqsUpTo(S, n) == UNION { [1..k -> S] : k \in 0..n }

Items == {"A", "B"}
Weights == {50, 100}

\* TopItem(item, weight) objects, and objects lacking one of the attributes.
RankedItems == [item : Items, weight : Weights]
Malformed == { [item |-> "A"], [weight |-> 50] }

\* Ranked lists as the service returns them: descending by weight.
RankedLists ==
    { l \in SeqsUpTo(RankedItems, MaxLen) :
        \A k \in 1..(Len(l) - 1) : l[k].weight >= l[k + 1].weight }

\* A ranked list with one malformed object put in at some position.
BrokenLists ==
    UNION { { [k \in 1..(Len(l) + 1) |->
                 IF k < p THEN l[k] ELSE IF k = p THEN m ELSE l[k - 1]] :
              p \in 1..(Len(l) + 1), m \in Malformed } :
            l \in { x \in RankedLists : Len(x) < MaxLen } }

DataInputs == RankedLists \cup BrokenLists

\* What the text path holds before the first call: nothing (no file), one
\* old line, or more old lines than any new list has.
PriorFiles(file_name) ==
    { Empty,
      Bind(Empty, file_name, "1. Z (7)\n"),
      Bind(Empty, file_name, StaleFiles["top_annual_artists"]) }

\* What the image path holds before the first call: nothing, or the chart
\* of a previous run.
PriorImages(path) ==
    { Empty,
      Bind(Empty, path, Figure(<<[item |-> "Z", weight |-> 7]>>, "Artists",
                               "Listens", "Top Artists of 2018", TRUE)) }

\* A caller holding one list, about to pass it to the two functions.
LibraryInit ==
    /\ pc = 0
    /\ exit = "library"
    /\ secrets_json = [exists |-> FALSE]
    /\ globals = Empty
    /\ stdout = <<>>
    /\ clients = <<>>
    /\ requests = <<>>
    /\ \E data \in DataInputs :
          args = [data |-> data, file_name |-> "top_annual_artists",
                  x_label |-> "Artists", y_label |-> "Listens",
                  title |-> "Top Artists of 2019", graph_path |-> ".",
                  graph_filename |-> "top_annual_artist.jpg"]
    /\ files \in PriorFiles("top_annual_artists")
    /\ images \in PriorImages("./top_annual_artist.jpg")
    /\ raised = ""
    /\ trace = <<>>
    /\ calls = <<>>
    /\ old = <<>>

\* The state a call starts from is kept, and the call is logged.  As in
\* __main__, the caller catches nothing: after a call that raised it makes
\* no further call.
Called(fn, io) ==
    /\ exit = "library"
    /\ raised = ""
    /\ Len(calls) < MaxCalls
    /\ calls' = Append(calls, [fn |-> fn, io |-> io])
    /\ old' = Append(old, [files |-> files, images |-> images,
                           raised |-> raised])

\* write_data_to_file(data, file_name)
CallWriteDataToFile ==
    /\ \E io \in IoWrite :
          /\ Called("write_data_to_file", io)
          /\ write_data_to_file(args.data, args.file_name, io)
    /\ UNCHANGED <<pc, exit, secrets_json, globals, stdout, clients, requests,
                   images, trace, args>>

\* create_bar_chart(data, x_label, y_label, title, graph_path, graph_filename)
CallCreateBarChart ==
    /\ \E io \in IoChart :
          /\ Called("create_bar_chart", io)
          /\ create_bar_chart(args.data, args.x_label, args.y_label,
                              args.title, args.graph_path, args.graph_filename,
                              io)
    /\ UNCHANGED <<pc, exit, secrets_json, globals, stdout, clients, requests,
                   files, trace, args>>

LibraryNext ==
    \/ CallWriteDataToFile
    \/ CallCreateBarChart

LibrarySpec == LibraryInit /\ [][LibraryNext]_vars

----------------------------------------------------------------------------
(* Properties of the library functions (LibrarySpec)                       *)

\* The last library call, and the state it started from.
LastCall == calls[Len(calls)]
Before == old[Len(old)]

\* The lines of a text: each ends with its line break, but for a last one
\* that was cut short.
RECURSIVE LinesFrom(_, _, _)
LinesFrom(text, start, i) ==
    IF i > Len(text)
    THEN IF start > Len(text) THEN <<>> ELSE <<SubSeq(text, start, Len(text))>>
    ELSE IF SubSeq(text, i, i) = "\n"
    THEN <<SubSeq(text, start, i)>> \o LinesFrom(text, i + 1, i + 1)
    ELSE LinesFrom(text, start, i + 1)

Lines(text) == LinesFrom(text, 1, 1)

\* The text "{rank}. {item} ({weight})\n".
RankedLine(rank, item, weight) ==
    ToString(rank) \o ". " \o item \o " (" \o ToString(weight) \o ")\n"

\* The last call was write_data_to_file and it returned.
Wrote ==
    /\ Len(calls) > 0
    /\ LastCall.fn = "write_data_to_file"
    /\ raised = ""

\* The last call was create_bar_chart and it returned.
Charted ==
    /\ Len(calls) > 0
    /\ LastCall.fn = "create_bar_chart"
    /\ raised = ""

\* C1: after write_data_to_file returns for a non-empty list of length N, the
\* target file holds exactly N lines, and line k is "k. {item} ({weight})\n"
\* of the k-th element: ranks run 1, 2, ..., N.
C1_RankedLines ==
    (Wrote /\ Len(args.data) > 0) =>
        /\ args.file_name \in DOMAIN files
        /\ Len(Lines(files[args.file_name])) = Len(args.data)
        /\ \A k \in 1..Len(args.data) :
              Lines(files[args.file_name])[k] =
                  RankedLine(k, args.data[k].item, args.data[k].weight)

\* C1 witness: the list [("A", 100), ("B", 50)] was written.
C1_Witness ==
    /\ Wrote
    /\ args.data = <<[item |-> "A", weight |-> 100], [item |-> "B", weight |-> 50]>>
    /\ files[args.file_name] = "1. A (100)\n2. B (50)\n"

\* C6: after write_data_to_file returns, the target file holds the lines of
\* the list just written and nothing of what it held before, whether that
\* was longer or shorter; and when the call before it was the same call and
\* returned too, the second call left the file's content as the first had.
C6_Overwrites ==
    Wrote =>
        /\ Lines(files[args.file_name]) =
              [k \in 1..Len(args.data) |->
                  RankedLine(k, args.data[k].item, args.data[k].weight)]
        /\ (/\ Len(calls) > 1
            /\ calls[Len(calls) - 1].fn = "write_data_to_file"
            /\ Before.raised = "")
           => files[args.file_name] = Before.files[args.file_name]

\* C6 witness: the file held more lines than the list has, the list was
\* written, and written again.
C6_Witness ==
    /\ Wrote
    /\ Len(calls) = 2
    /\ calls[1].fn = "write_data_to_file"
    /\ Before.raised = ""
    /\ args.file_name \in DOMAIN old[1].files
    /\ Len(args.data) > 0
    /\ Len(Lines(old[1].files[args.file_name])) > Len(args.data)

\* C7: write_data_to_file with an empty list, when the file system lets it
\* open and write, returns without raising and leaves the target file
\* existing and empty.
C7_EmptyList ==
    (/\ Len(calls) > 0
     /\ LastCall.fn = "write_data_to_file"
     /\ LastCall.io = "ok"
     /\ Len(args.data) = 0)
    => /\ raised = ""
       /\ args.file_name \in DOMAIN files
       /\ files[args.file_name] = ""

\* C7 witness: an empty list was written over a file that held lines.
C7_Witness ==
    /\ Len(calls) = 1
    /\ LastCall.fn = "write_data_to_file"
    /\ LastCall.io = "ok"
    /\ Len(args.data) = 0
    /\ args.file_name \in DOMAIN Before.files
    /\ Len(Before.files[args.file_name]) > 0
    /\ files[args.file_name] = ""

\* C9: after create_bar_chart returns, the names and the heights given to
\* the bar plot both have the list's length, position k holding the k-th
\* element's name and the integer value of its weight; and a text file that
\* write_data_to_file wrote from the same list in the call before holds, line
\* by line, the entries the chart draws, in the same order.
C9_BarsFollowList ==
    Charted =>
        LET image == images[GraphFile(args.graph_path, args.graph_filename)]
        IN  /\ Len(image.names) = Len(args.data)
            /\ Len(image.listens) = Len(args.data)
            /\ \A k \in 1..Len(args.data) :
                  /\ image.names[k] = args.data[k].item
                  /\ image.listens[k] = args.data[k].weight
            /\ (/\ Len(calls) > 1
                /\ calls[Len(calls) - 1].fn = "write_data_to_file"
                /\ Before.raised = "")
               => /\ Len(Lines(files[args.file_name])) = Len(image.names)
                  /\ \A k \in 1..Len(image.names) :
                        Lines(files[args.file_name])[k] =
                            RankedLine(k, image.names[k], image.listens[k])

\* C9 witness: a list of two different entries was written, then charted.
C9_Witness ==
    /\ Charted
    /\ Len(calls) = 2
    /\ calls[1].fn = "write_data_to_file"
    /\ Before.raised = ""
    /\ Len(args.data) = 2
    /\ args.data[1].item # args.data[2].item
    /\ args.data[1].weight # args.data[2].weight

\* C10: when an element of the list lacks item or weight, write_data_to_file
\* raises and the file system is as it was before the call: the target file
\* is neither created nor truncated.
C10_FormatFailsBeforeOpen ==
    (/\ Len(calls) > 0
     /\ LastCall.fn = "write_data_to_file"
     /\ \E k \in 1..Len(args.data) :
           ~({"item", "weight"} \subseteq DOMAIN args.data[k]))
    => /\ raised = "AttributeError"
       /\ files = Before.files

\* C10 witness: a list whose second element has no weight was passed, the
\* file system would have let the file be opened, and the old lines are there.
C10_Witness ==
    /\ Len(calls) = 1
    /\ LastCall.fn = "write_data_to_file"
    /\ LastCall.io = "ok"
    /\ Len(args.data) = 2
    /\ "weight" \notin DOMAIN args.data[2]
    /\ raised = "AttributeError"
    /\ args.file_name \in DOMAIN files
    /\ Len(Lines(files[args.file_name])) > 1

----------------------------------------------------------------------------
(* Properties of a run of the script (Spec)                                *)

\* The six top-list calls of a run, in order: (method, period, limit).
SixQueries ==
    << <<"get_top_artists", "12month", 20>>,
       <<"get_top_albums",  "12month", 20>>,
       <<"get_top_tracks",  "12month", 20>>,
       <<"get_top_artists", "overall", 100>>,
       <<"get_top_albums",  "overall", 15>>,
       <<"get_top_tracks",  "overall", 15>> >>

\* The names the six results are bound to, in the order of SixQueries.
SixNames ==
    << "top_annual_artists", "top_annual_albums", "top_annual_tracks",
       "top_overall_artists", "top_overall_albums", "top_overall_tracks" >>

\* The run is over.
Terminated == exit \in {"ok", "error"}

\* C2: with no secrets.json, once get_secrets has run the diagnostic is
\* printed, FileNotFoundError has propagated and ended the run, and no
\* client was constructed, no query issued, no text or image file written.
C2_MissingSecrets ==
    (~secrets_json.exists /\ trace # <<>>) =>
        /\ stdout = <<"Could not find secrets.json!">>
        /\ raised = "FileNotFoundError"
        /\ exit = "error"
        /\ Len(trace) = 1
        /\ trace[1].call = "get_secrets"
        /\ clients = <<>>
        /\ requests = <<>>
        /\ files = StaleFiles
        /\ images = Empty
        /\ ~ENABLED Next

\* C2 witness: a run without secrets.json has ended.
C2_Witness ==
    /\ ~secrets_json.exists
    /\ exit = "error"
    /\ stdout # <<>>

\* C3 as stated: every run, once over, has issued exactly the six queries.
C3_SixQueriesInEveryRun ==
    Terminated =>
        /\ Len(requests) = 6
        /\ \A i \in 1..6 :
              <<requests[i].method, requests[i].period, requests[i].limit>>
                  = SixQueries[i]

\* C3 amended: the queries a run has issued are always the first ones of
\* the six (artists, albums, tracks with '12month' and limits 20, 20, 20,
\* then with 'overall' and limits 100, 15, 15); a fetch operation that has
\* returned has bound its three results to the names for artists, albums and
\* tracks in that order; and a run in which both have returned, as every run
\* that ends without failure has, issued exactly the six.
C3_SixQueriesWhenFetched ==
    /\ Len(requests) <= 6
    /\ \A i \in 1..Len(requests) :
          <<requests[i].method, requests[i].period, requests[i].limit>>
              = SixQueries[i]
    /\ \A i \in 1..6 :
          SixNames[i] \in DOMAIN globals =>
              /\ Len(requests) >= (IF i <= 3 THEN 3 ELSE 6)
              /\ requests[i].ok
              /\ globals[SixNames[i]] = requests[i].result
    /\ ("top_overall_tracks" \in DOMAIN globals \/ exit = "ok") =>
          /\ Len(requests) = 6
          /\ \A i \in 1..6 : SixNames[i] \in DOMAIN globals

\* C3 witness: a run has ended without failure after six answered queries,
\* none of them answered with an empty list.
C3_Witness ==
    /\ exit = "ok"
    /\ Len(requests) = 6
    /\ \A i \in 1..6 : requests[i].ok /\ Len(requests[i].result) > 0

\* The six text files and the six image files.
TextFiles ==
    { "top_annual_artists", "top_overall_artists", "top_annual_albums",
      "top_overall_albums", "top_annual_tracks", "top_overall_tracks" }
ImageFiles ==
    { "./top_annual_artist.jpg", "./top_overall_artist.jpg",
      "./top_annual_albums.jpg", "./top_overall_albums.jpg",
      "./top_annual_tracks.jpg", "./top_overall_tracks.jpg" }

\* C4: a statement that raises ends the run there: the run is over with an
\* error, the failing statement is the last one started, a failed query is
\* the last one issued, and nothing more can happen; no statement is started
\* twice; and a run that ends without failure
\* has started all seventeen statements and written the six text files and
\* the six image files.
C4_AbortsAtFirstFailure ==
    /\ (raised # "") <=> (exit = "error")
    /\ \A i \in 1..Len(requests) :
          ~requests[i].ok => (i = Len(requests) /\ exit = "error")
    /\ exit = "error" =>
          /\ trace # <<>>
          /\ trace[Len(trace)] = Event(Main[pc])
          /\ Len(trace) = pc
          /\ ~ENABLED Next
    /\ \A i \in 1..Len(trace) :
          \A j \in (i + 1)..Len(trace) : trace[i].line # trace[j].line
    /\ exit = "ok" =>
          /\ Len(trace) = 17
          /\ ~ENABLED Next
          /\ TextFiles \subseteq DOMAIN files
          /\ ImageFiles \subseteq DOMAIN images
          /\ \A i \in ImageFiles : images[i].complete

\* C4 witness: the write of the third list failed after two lists were
\* reported, and nothing of the later lists is on disk.
C4_Witness ==
    /\ exit = "error"
    /\ trace[Len(trace)].on = "top_annual_albums"
    /\ "./top_overall_artist.jpg" \in DOMAIN images
    /\ "top_overall_albums" \notin DOMAIN files
    /\ "./top_annual_albums.jpg" \notin DOMAIN images

\* Which answer belongs in which text file and which image file.
Wiring ==
    { <<"get_top_artists", "12month", "top_annual_artists",  "./top_annual_artist.jpg">>,
      <<"get_top_artists", "overall", "top_overall_artists", "./top_overall_artist.jpg">>,
      <<"get_top_albums",  "12month", "top_annual_albums",   "./top_annual_albums.jpg">>,
      <<"get_top_albums",  "overall", "top_overall_albums",  "./top_overall_albums.jpg">>,
      <<"get_top_tracks",  "12month", "top_annual_tracks",   "./top_annual_tracks.jpg">>,
      <<"get_top_tracks",  "overall", "top_overall_tracks",  "./top_overall_tracks.jpg">> }

\* The list the service returned for the query (method, period).
Returned(method, period) ==
    LET i == CHOOSE i \in 1..Len(requests) :
                 /\ requests[i].method = method
                 /\ requests[i].period = period
                 /\ requests[i].ok
    IN  requests[i].result

\* C5: in a run that ended without failure, for each category and window
\* the text file of that name holds the ranked lines of the list the service
\* returned for that very query, and the image file of that pair is the
\* complete chart of the same list.
C5_FilesHoldTheirLists ==
    exit = "ok" =>
        \A w \in Wiring :
            LET list == Returned(w[1], w[2])
            IN  /\ Lines(files[w[3]]) =
                      [k \in 1..Len(list) |->
                          RankedLine(k, list[k].item, list[k].weight)]
                /\ images[w[4]].complete
                /\ images[w[4]].names = [k \in 1..Len(list) |-> list[k].item]
                /\ images[w[4]].listens = [k \in 1..Len(list) |-> list[k].weight]

\* C5 witness: the service returned [("A", 100), ("B", 50)] for the annual
\* artists, and the run ended with the two lines in top_annual_artists and a
\* chart at top_annual_artist.jpg.
C5_Witness ==
    /\ exit = "ok"
    /\ Returned("get_top_artists", "12month")
          = <<[item |-> "A", weight |-> 100], [item |-> "B", weight |-> 50]>>
    /\ files["top_annual_artists"] = "1. A (100)\n2. B (50)\n"
    /\ images["./top_annual_artist.jpg"].names = <<"A", "B">>
    /\ Len(Returned("get_top_albums", "overall")) = 1

\* The order of a run's steps: the function called and the file it names.
FixedOrder ==
    << <<"get_secrets", "">>,
       <<"interpret_secrets", "">>,
       <<"get_annual_data", "">>,
       <<"get_all_time_data", "">>,
       <<"now", "">>,
       <<"write_data_to_file", "top_annual_artists">>,
       <<"create_bar_chart", "top_annual_artist.jpg">>,
       <<"write_data_to_file", "top_overall_artists">>,
       <<"create_bar_chart", "top_overall_artist.jpg">>,
       <<"write_data_to_file", "top_annual_albums">>,
       <<"create_bar_chart", "top_annual_albums.jpg">>,
       <<"write_data_to_file", "top_overall_albums">>,
       <<"create_bar_chart", "top_overall_albums.jpg">>,
       <<"write_data_to_file", "top_annual_tracks">>,
       <<"create_bar_chart", "top_annual_tracks.jpg">>,
       <<"write_data_to_file", "top_overall_tracks">>,
       <<"create_bar_chart", "top_overall_tracks.jpg">> >>

\* C8: the steps a run has started are always the first steps of one fixed
\* order: get_secrets, interpret_secrets, get_annual_data, get_all_time_data,
\* then for annual artists, overall artists, annual albums, overall albums,
\* annual tracks, overall tracks the text file and right after it the chart.
\* A client exists only once the credentials are loaded, a query only once
\* the user is built, no '12month' query follows an 'overall' one, and once a
\* text or image file has been written all six queries have been answered.
C8_FixedOrder ==
    /\ Len(trace) <= 17
    /\ \A i \in 1..Len(trace) : <<trace[i].call, trace[i].on>> = FixedOrder[i]
    /\ clients # <<>> => "my_secrets" \in DOMAIN globals
    /\ requests # <<>> => "my_user" \in DOMAIN globals
    /\ \A i \in 1..Len(requests) :
          requests[i].period = "overall" =>
              \A j \in (i + 1)..Len(requests) : requests[j].period = "overall"
    /\ (files # StaleFiles \/ images # Empty) =>
          /\ Len(requests) = 6
          /\ \A i \in 1..6 : requests[i].ok

\* C8 witness: a run has gone through all seventeen steps.
C8_Witness ==
    /\ exit = "ok"
    /\ Len(trace) = 17
    /\ Len(requests) = 6

====
